---- MODULE Spec2Model ----
(***************************************************************************)
(* Model of pibaf's UnsafeArcArray (src/src/arc_array.rs), the atomically  *)
(* reference-counted slot table, and of the Instance / PhysicalDevice      *)
(* handles built on it (src/src/vk/instance.rs, physical_device.rs), and  *)
(* of the extension and validation layer lists (src/src/vk/extension.rs,   *)
(* validation_layer.rs).                                                   *)
(*                                                                         *)
(* Every atomic instruction and every access to a slot's storage is one    *)
(* step of one thread; the steps of different threads interleave freely.   *)
(***************************************************************************)
EXTENDS Integers, Sequences, FiniteSets, TLC

\* ---------------------------------------------------------------- bounds
NumThreads == 3     \* threads operating on the table
N == 2              \* const generic N of the table checked under Spec
MaxGen == 3         \* successful acquisitions in one behaviour
MaxHandles == 2     \* handles alive at once on one stored value
MaxDevices == 1     \* physical devices one enumerate call reports
MaxUnheld == 1      \* dec_count calls made without holding a reference
MaxProps == 2       \* entries the Vulkan loader reports in one enumeration
MaxVersion == 2     \* spec versions the loader reports
MaxRequired == 2    \* length of a list of required extensions or layers
MaxClaims == 1      \* acquisitions in a behaviour that tracks memory ordering
MaxBeyond == 1      \* indices past the end of the table that callers pass

\* ----------------------------------------------------- program constants
MAX_INSTANCES == 1
LimbBase == 65536   \* an AtomicU64 is kept as four 16-bit limbs, low first

Threads == 1..NumThreads
Gen == 1..MaxGen    \* one id per successful claim; the initializer of
                    \* claim g produces the value g

VARIABLES
  client,           \* who uses the table: "array" (direct calls on an
                    \* UnsafeArcArray<N, T>), "vk" (Instance handles on
                    \* RAW_INSTANCES) or "misuse" (direct calls, some of
                    \* them dec_count calls without a reference)
  size,             \* N of this instantiation of UnsafeArcArray<N, T>
  debug_assertions, \* cfg(debug_assertions) of the build: "on" or "off"
                    \* from the first debug_assert! whose outcome the build
                    \* decides, "unread" before
  ref_counts,       \* ref_counts: [AtomicU64; N]
  items,            \* items: [UnsafeCell<MaybeUninit<T>>; N]
  pc,               \* per thread: where it is inside its current call
  idx,              \* per thread: local idx / index
  prev_count,       \* per thread: local prev_count of dec_count
  cur,              \* per thread: the value (claim) its call is about
  todo,             \* per thread: devices enumerate has still to wrap
  handles,          \* per value: references held outside PhysicalDevices
  devices,          \* per value: PhysicalDevices (one Instance clone each)
  slotOf,           \* per value: the index its claim returned
  nextGen,          \* next unused claim id
  drops,            \* per value: the destructor runs on it, each tagged
                    \* with the value whose reference the dropping call released
  ub,               \* a storage access outside MaybeUninit's contract happened
  unheld,           \* dec_count calls made so far without a reference
  ret,              \* the call that has just returned and what it returned
  seq,              \* history of the calls so far, kept while no two overlapped
  race,             \* acquire_and_init calls racing for one free slot
  prevGen,          \* per value: the destroyed value its claim reused
  full,             \* per thread in acquire_and_init: at some instant since
                    \* the call began every slot had a count > 0
  claimsSince,      \* per slot: claims since its last zero-reaching decrement
  caps,             \* the extension / validation layer lists of one run:
                    \* what the loader reports, the enumerated list, the
                    \* required variants and the selection made from them
  mo                \* one slot under the memory model: which accesses to the
                    \* stored value happen-before each thread's next step

vars == <<client, size, debug_assertions, ref_counts, items, pc, idx,
          prev_count, cur, todo, handles, devices, slotOf, nextGen, drops,
          ub, unheld, ret, seq, race, prevGen, full, claimsSince, caps, mo>>

Slots == 0..(size - 1)

\* ------------------------------------------------------------ AtomicU64
U64Zero == <<0, 0, 0, 0>>
U64One == <<1, 0, 0, 0>>
U64Max == <<LimbBase - 1, LimbBase - 1, LimbBase - 1, LimbBase - 1>>

RECURSIVE AddAt(_, _)
AddAt(c, k) ==
  IF k > Len(c) THEN c
  ELSE IF c[k] = LimbBase - 1 THEN AddAt([c EXCEPT ![k] = 0], k + 1)
  ELSE [c EXCEPT ![k] = @ + 1]

RECURSIVE SubAt(_, _)
SubAt(c, k) ==
  IF k > Len(c) THEN c
  ELSE IF c[k] = 0 THEN SubAt([c EXCEPT ![k] = LimbBase - 1], k + 1)
  ELSE [c EXCEPT ![k] = @ - 1]

\* the count as a number, for counts below LimbBase
IsSmall(c) == c[2] = 0 /\ c[3] = 0 /\ c[4] = 0
AsNat(c) == c[1]

\* mutant: the incremented value is never stored
fetch_add_lost(c) == [prev |-> c, val |-> c]

\* mutant: the count is raised twice
fetch_add_twice(c) == [prev |-> c, val |-> AddAt(AddAt(c, 1), 1)]

\* AtomicU64::fetch_add(1, _): wrapping
fetch_add(c) == [prev |-> c, val |-> AddAt(c, 1)]

\* mutant: the subtraction saturates at 0
fetch_sub_saturating(c) ==
  [prev |-> c, val |-> IF c = U64Zero THEN c ELSE SubAt(c, 1)]

\* AtomicU64::fetch_sub(1, _): wrapping
fetch_sub(c) == [prev |-> c, val |-> SubAt(c, 1)]

\* mutant: a success is reported without storing the new value
compare_exchange_nostore(c, current, new) == [ok |-> c = current, val |-> c]

\* mutant: an unconditional swap that always reports success
compare_exchange_swap(c, current, new) == [ok |-> TRUE, val |-> new]

\* mutant: a swap, with success judged from the value it replaced
compare_exchange_store(c, current, new) == [ok |-> c = current, val |-> new]

\* mutant: the exchange always fails
compare_exchange_spurious(c, current, new) == [ok |-> FALSE, val |-> c]

\* AtomicU64::compare_exchange(current, new, _, _)
compare_exchange(c, current, new) ==
  IF c = current THEN [ok |-> TRUE, val |-> new]
  ELSE [ok |-> FALSE, val |-> c]

\* --------------------------------------------------------- MaybeUninit<T>
Uninit == [st |-> "uninit", v |-> 0]

\* mutant: only a cell that was never used is written
write_once(cell, v) ==
  IF cell.st = "uninit" THEN [st |-> "init", v |-> v] ELSE cell

\* MaybeUninit::write: overwrites the cell, never drops what was there
write(cell, v) == [st |-> "init", v |-> v]

\* MaybeUninit::assume_init_drop: runs T's destructor on the cell in place
assume_init_drop(cell) == [st |-> "dropped", v |-> cell.v]

\* mutant: the value is moved out of the cell
assume_init_take(cell) == [st |-> "uninit", v |-> cell.v]

\* MaybeUninit::assume_init_ref: a reference to whatever the cell holds
assume_init_ref(cell) == cell

\* ------------------------------------------------------------- results
None == [tag |-> "None", idx |-> 0]
Some(i) == [tag |-> "Some", idx |-> i]
NoRet == [op |-> "none"]
NoRace == [on |-> FALSE, racers |-> {}, free |-> 0, some |-> 0, none |-> 0,
           inits |-> 0]
Concurrent == [on |-> FALSE, anyDec |-> FALSE, lastDone |-> "none",
               afterFree |-> FALSE]

Busy(t) == pc[t] \notin {"idle", "panicked"}
Quiet == \A t \in Threads : ~Busy(t)
Holders(g) == handles[g] + devices[g]
Borrowed(g) == \E t \in Threads : pc[t] = "enum" /\ cur[t] = g
FreeSlots == {i \in Slots : ref_counts[i] = U64Zero}

\* ------------------------------------------------------------------ Init
InitTable(c, n) ==
  /\ client = c
  /\ size = n
  /\ debug_assertions = "unread"
  /\ ref_counts = [i \in 0..(n - 1) |-> U64Zero]
  /\ items = [i \in 0..(n - 1) |-> Uninit]
  /\ pc = [t \in Threads |-> "idle"]
  /\ idx = [t \in Threads |-> 0]
  /\ prev_count = [t \in Threads |-> U64Zero]
  /\ cur = [t \in Threads |-> 0]
  /\ todo = [t \in Threads |-> 0]
  /\ handles = [g \in Gen |-> 0]
  /\ devices = [g \in Gen |-> 0]
  /\ slotOf = [g \in Gen |-> 0]
  /\ nextGen = 1
  /\ drops = [g \in Gen |-> <<>>]
  /\ ub = FALSE
  /\ unheld = 0
  /\ ret = NoRet
  /\ seq = [Concurrent EXCEPT !.on = TRUE]
  /\ race = NoRace
  /\ prevGen = [g \in Gen |-> 0]
  /\ full = [t \in Threads |-> FALSE]
  /\ claimsSince = [i \in 0..(n - 1) |-> 0]

\* no extension or layer list is being built
NoCaps == [kind |-> "none"]

\* no behaviour under the memory model is being tracked
NoOrder == [at |-> <<>>]

InitWith(c, n) == InitTable(c, n) /\ caps = NoCaps /\ mo = NoOrder

\* UnsafeArcArray::<N, T>::new()
new == InitWith("array", N)

\* static RAW_INSTANCES: UnsafeArcArray<MAX_INSTANCES, RawInstance>
RAW_INSTANCES == InitWith("vk", MAX_INSTANCES)

Init == new \/ RAW_INSTANCES

\* ------------------------------------------------- bookkeeping of a call
RECURSIVE SumOver(_, _)
SumOver(S, f) ==
  IF S = {} THEN 0
  ELSE LET x == CHOOSE y \in S : TRUE IN f[x] + SumOver(S \ {x}, f)

\* clones the enumerate calls in flight on value g have still to make
Reserved(g) ==
  SumOver({t \in Threads : pc[t] = "enum" /\ cur[t] = g}, todo)

\* thread t begins a call of the given kind; returns says whether the call
\* returns within the same step
SeqCall(t, kind, returns) ==
  seq' = IF ~seq.on \/ \E u \in Threads \ {t} : Busy(u)
         THEN Concurrent
         ELSE [on |-> TRUE,
               anyDec |-> (seq.anyDec \/ kind = "dec"),
               lastDone |-> IF returns THEN "other" ELSE seq.lastDone,
               afterFree |-> (kind = "acquire" /\ seq.lastDone = "dec0")]

\* the call in flight returns; k is "dec0" for a dec_count that destroyed
SeqReturn(k) ==
  seq' = IF seq.on THEN [seq EXCEPT !.lastDone = k] ELSE seq

\* a call other than acquire_and_init by t ends the race t took part in
RaceOther(t) ==
  race' = IF t \in race.racers THEN NoRace ELSE race

\* acquire_and_init by t opens a race for the single free slot of a table
\* nobody is operating on, or joins the calls still racing for it
RaceAcquire(t) ==
  race' = IF ~race.on /\ Quiet /\ Cardinality(FreeSlots) = 1
          THEN [NoRace EXCEPT !.on = TRUE, !.racers = {t},
                              !.free = CHOOSE i \in FreeSlots : TRUE]
          ELSE IF /\ race.on
                  /\ t \notin race.racers
                  /\ \A u \in race.racers : pc[u] \in {"acq", "write"}
          THEN [race EXCEPT !.racers = @ \cup {t}]
          ELSE NoRace

\* the acquire_and_init call of t returns, with or without a slot
RaceReturn(t, got) ==
  race' = IF t \in race.racers
          THEN IF got THEN [race EXCEPT !.some = @ + 1, !.inits = @ + 1]
               ELSE [race EXCEPT !.none = @ + 1]
          ELSE race

\* after a step: the acquire_and_init calls in flight that have seen the
\* table at capacity, the instant after this step included
SawFull ==
  full' = [u \in Threads |->
             /\ pc'[u] = "acq"
             /\ (full[u] \/ \A i \in Slots : ref_counts'[i] # U64Zero)]

\* --------------------------------------------------- acquire_and_init
AcquireStart(t) ==
  /\ pc[t] = "idle"
  /\ nextGen + Cardinality({u \in Threads : pc[u] = "acq"}) <= MaxGen
  /\ pc' = [pc EXCEPT ![t] = "acq"]
  /\ idx' = [idx EXCEPT ![t] = 0]
  /\ ret' = NoRet
  /\ SeqCall(t, "acquire", FALSE)
  /\ RaceAcquire(t)
  /\ UNCHANGED <<unheld, client, size, debug_assertions, ref_counts, items,
                 prev_count, cur, todo, handles, devices, slotOf, nextGen,
                 drops, ub, prevGen, claimsSince>>
  /\ UNCHANGED <<caps, mo>>
  /\ SawFull

\* mutant: the scan stops one slot short
HasNext_short(i) == i + 2 < size

\* for (idx, rc) in self.ref_counts.iter().enumerate(): another slot
\* follows slot i
HasNext(i) == i + 1 < size

\* a direct call of UnsafeArcArray::acquire_and_init
AcquireAndInit(t) ==
  /\ client \in {"array", "misuse"}
  /\ AcquireStart(t)

\* mutant: the scan starts over until a compare_exchange succeeds
AcquireCas_spin(t) ==
  /\ pc[t] = "acq"
  /\ LET i == idx[t]
         r == compare_exchange(ref_counts[i], U64Zero, U64One)
     IN /\ ref_counts' = [ref_counts EXCEPT ![i] = r.val]
        /\ IF r.ok
           THEN /\ pc' = [pc EXCEPT ![t] = "write"]
                /\ cur' = [cur EXCEPT ![t] = nextGen]
                /\ nextGen' = nextGen + 1
                /\ slotOf' = [slotOf EXCEPT ![nextGen] = i]
                /\ prevGen' = [prevGen EXCEPT ![nextGen] =
                     IF /\ items[i].st = "dropped"
                        /\ items[i].v > 0
                        /\ Len(drops[items[i].v]) = 1
                        /\ ~\E u \in Threads : pc[u] = "drop" /\ idx[u] = i
                     THEN items[i].v ELSE 0]
                /\ claimsSince' = [claimsSince EXCEPT ![i] = @ + 1]
                /\ ret' = NoRet
                /\ UNCHANGED <<idx, seq, race>>
           ELSE \* try again, from slot 0 after the last slot
                /\ idx' = [idx EXCEPT ![t] = (i + 1) % size]
                /\ ret' = NoRet
                /\ UNCHANGED <<pc, cur, nextGen, slotOf, prevGen,
                               claimsSince, seq, race>>
  /\ UNCHANGED <<unheld, client, size, debug_assertions, items, prev_count, todo,
                 handles, devices, drops, ub>>
  /\ UNCHANGED <<caps, mo>>
  /\ SawFull

\* one iteration of the scan: the compare_exchange on slot idx
AcquireCas(t) ==
  /\ pc[t] = "acq"
  /\ LET i == idx[t]
         r == compare_exchange(ref_counts[i], U64Zero, U64One)
     IN /\ ref_counts' = [ref_counts EXCEPT ![i] = r.val]
        /\ IF r.ok
           THEN /\ pc' = [pc EXCEPT ![t] = "write"]
                /\ cur' = [cur EXCEPT ![t] = nextGen]
                /\ nextGen' = nextGen + 1
                /\ slotOf' = [slotOf EXCEPT ![nextGen] = i]
                /\ prevGen' = [prevGen EXCEPT ![nextGen] =
                     IF /\ items[i].st = "dropped"
                        /\ items[i].v > 0
                        /\ Len(drops[items[i].v]) = 1
                        /\ ~\E u \in Threads : pc[u] = "drop" /\ idx[u] = i
                     THEN items[i].v ELSE 0]
                /\ claimsSince' = [claimsSince EXCEPT ![i] = @ + 1]
                /\ ret' = NoRet
                /\ UNCHANGED <<idx, seq, race>>
           ELSE IF HasNext(i)
           THEN /\ idx' = [idx EXCEPT ![t] = i + 1]
                /\ ret' = NoRet
                /\ UNCHANGED <<pc, cur, nextGen, slotOf, prevGen,
                               claimsSince, seq, race>>
           ELSE \* the scan is over: None; from_raw's expect panics on it
                /\ pc' = [pc EXCEPT ![t] =
                     IF client = "vk" THEN "panicked" ELSE "idle"]
                /\ idx' = [idx EXCEPT ![t] = 0]
                /\ ret' = [op |-> "acquire_and_init", by |-> t,
                           val |-> None, init |-> FALSE,
                           full |-> full[t]]
                /\ SeqReturn("other")
                /\ RaceReturn(t, FALSE)
                /\ UNCHANGED <<cur, nextGen, slotOf, prevGen, claimsSince>>
  /\ UNCHANGED <<unheld, client, size, debug_assertions, items, prev_count, todo,
                 handles, devices, drops, ub>>
  /\ UNCHANGED <<caps, mo>>
  /\ SawFull

\* mutant: the result of init is written to the storage of every slot
AcquireWrite_all(t) ==
  /\ pc[t] = "write"
  /\ items' = [i \in Slots |-> write(items[i], cur[t])]
  /\ handles' = [handles EXCEPT ![cur[t]] = 1]
  /\ ret' = [op |-> "acquire_and_init", by |-> t, val |-> Some(idx[t]),
             init |-> TRUE, full |-> full[t]]
  /\ pc' = [pc EXCEPT ![t] = "idle"]
  /\ idx' = [idx EXCEPT ![t] = 0]
  /\ cur' = [cur EXCEPT ![t] = 0]
  /\ SeqReturn("other")
  /\ RaceReturn(t, TRUE)
  /\ UNCHANGED <<unheld, client, size, debug_assertions, ref_counts, prev_count,
                 todo, devices, slotOf, nextGen, drops, ub, prevGen,
                 claimsSince>>
  /\ UNCHANGED <<caps, mo>>
  /\ SawFull

\* after a successful compare_exchange: run init, write its result, return
AcquireWrite(t) ==
  /\ pc[t] = "write"
  /\ items' = [items EXCEPT ![idx[t]] = write(@, cur[t])]
  /\ handles' = [handles EXCEPT ![cur[t]] = 1]
  /\ ret' = [op |-> "acquire_and_init", by |-> t, val |-> Some(idx[t]),
             init |-> TRUE, full |-> full[t]]
  /\ pc' = [pc EXCEPT ![t] = "idle"]
  /\ idx' = [idx EXCEPT ![t] = 0]
  /\ cur' = [cur EXCEPT ![t] = 0]
  /\ SeqReturn("other")
  /\ RaceReturn(t, TRUE)
  /\ UNCHANGED <<unheld, client, size, debug_assertions, ref_counts, prev_count,
                 todo, devices, slotOf, nextGen, drops, ub, prevGen,
                 claimsSince>>
  /\ UNCHANGED <<caps, mo>>
  /\ SawFull

\* ------------------------------------------------------------- get_ref
GetRefBody(t, g) ==
  /\ pc[t] = "idle"
  /\ g < nextGen /\ Holders(g) >= 1
  /\ LET i == slotOf[g]
     IN /\ ret' = [op |-> "get_ref", exp |-> g,
                   rc |-> ref_counts[i],
                   cell |-> assume_init_ref(items[i])]
        /\ ub' = (ub \/ items[i].st # "init")
  /\ SeqCall(t, "other", TRUE)
  /\ RaceOther(t)
  /\ UNCHANGED <<unheld, client, size, debug_assertions, ref_counts, items, pc,
                 idx, prev_count, cur, todo, handles, devices, slotOf,
                 nextGen, drops, prevGen, claimsSince>>
  /\ UNCHANGED <<caps, mo>>
  /\ SawFull

\* a direct call of get_ref by the holder of a reference on value g
GetRef(t, g) ==
  /\ client \in {"array", "misuse"}
  /\ GetRefBody(t, g)

\* ----------------------------------------------------------- inc_count
IncCountBody(t, g) ==
  /\ pc[t] = "idle"
  /\ g < nextGen /\ Holders(g) >= 1
  /\ Holders(g) + Reserved(g) < MaxHandles
  /\ ref_counts' = [ref_counts EXCEPT ![slotOf[g]] = fetch_add(@).val]
  /\ handles' = [handles EXCEPT ![g] = @ + 1]
  /\ ret' = [op |-> "inc_count"]
  /\ SeqCall(t, "other", TRUE)
  /\ RaceOther(t)
  /\ UNCHANGED <<unheld, client, size, debug_assertions, items, pc, idx,
                 prev_count, cur, todo, devices, slotOf, nextGen, drops,
                 ub, prevGen, claimsSince>>
  /\ UNCHANGED <<caps, mo>>
  /\ SawFull

\* a direct call of inc_count by the holder of a reference on value g
IncCount(t, g) ==
  /\ client \in {"array", "misuse"}
  /\ IncCountBody(t, g)

\* ----------------------------------------------------------- dec_count
\* debug_assert!(prev_count > 0)
DebugAssertHolds(prev) == prev # U64Zero

\* mutant: prev_count <= 1
LastReference_le(prev) == prev \in {U64Zero, U64One}

\* mutant: prev_count >= 1
LastReference_ge(prev) == prev # U64Zero

\* if prev_count == 1
LastReference(prev) == prev = U64One

\* assert!(index < N); fetch_sub; debug_assert!(prev_count > 0);
\* if prev_count == 1 the call goes on to the fence and the drop.
\* g is the value whose reference the caller gives up (0: none)
DecCountBody(t, i, g) ==
  /\ pc[t] = "idle"
  /\ i \in Slots
  /\ LET r == fetch_sub(ref_counts[i])
     IN \E dbg \in IF ~DebugAssertHolds(r.prev) /\ debug_assertions = "unread"
                   THEN {"on", "off"} ELSE {debug_assertions} :
        /\ debug_assertions' = dbg
        /\ ref_counts' = [ref_counts EXCEPT ![i] = r.val]
        /\ IF ~DebugAssertHolds(r.prev) /\ dbg = "on"
           THEN \* debug_assert! fails
                /\ pc' = [pc EXCEPT ![t] = "panicked"]
                /\ prev_count' = [prev_count EXCEPT ![t] = r.prev]
                /\ idx' = [idx EXCEPT ![t] = i]
                /\ cur' = [cur EXCEPT ![t] = g]
                /\ ret' = NoRet
           ELSE IF LastReference(r.prev)
           THEN /\ pc' = [pc EXCEPT ![t] = "drop"]
                /\ prev_count' = [prev_count EXCEPT ![t] = r.prev]
                /\ idx' = [idx EXCEPT ![t] = i]
                /\ cur' = [cur EXCEPT ![t] = g]
                /\ ret' = NoRet
           ELSE /\ ret' = [op |-> "dec_count", prev |-> r.prev,
                           dropped |-> FALSE]
                /\ UNCHANGED <<pc, prev_count, idx, cur>>
        /\ claimsSince' = [claimsSince EXCEPT ![i] =
             IF r.prev = U64One THEN 0 ELSE @]
        /\ SeqCall(t, "dec", ~LastReference(r.prev) \/ pc'[t] = "panicked")
  /\ race' = NoRace
  /\ UNCHANGED <<client, size, items, todo, slotOf, nextGen, drops, ub,
                 prevGen>>
  /\ UNCHANGED <<caps, mo>>
  /\ SawFull

\* dec_count by the holder of a reference on value g, which it gives up
DecCountHeld(t, g) ==
  /\ g < nextGen
  /\ handles[g] > (IF Borrowed(g) THEN 1 ELSE 0)
  /\ handles' = [handles EXCEPT ![g] = @ - 1]
  /\ DecCountBody(t, slotOf[g], g)
  /\ UNCHANGED <<devices, unheld>>

\* a direct call of dec_count
DecCount(t, g) ==
  /\ client \in {"array", "misuse"}
  /\ DecCountHeld(t, g)

\* dec_count(index) on a slot whose count is 0, by a caller that holds no
\* reference: one call more than the acquisition and the increments
\* account for
DecCountUnheld(t, i) ==
  /\ client = "misuse"
  /\ unheld < MaxUnheld
  /\ i \in Slots
  /\ ref_counts[i] = U64Zero
  /\ unheld' = unheld + 1
  /\ DecCountBody(t, i, 0)
  /\ UNCHANGED <<handles, devices>>

\* fence(Acquire); assume_init_drop() on the slot's storage; return
DecCountDrop(t) ==
  /\ pc[t] = "drop"
  /\ LET cell == items[idx[t]]
     IN /\ items' = [items EXCEPT ![idx[t]] = assume_init_drop(cell)]
        /\ ub' = (ub \/ cell.st # "init")
        /\ drops' = IF cell.v > 0
                    THEN [drops EXCEPT ![cell.v] = Append(@, cur[t])]
                    ELSE drops
  /\ ret' = [op |-> "dec_count", prev |-> prev_count[t],
             dropped |-> TRUE]
  /\ pc' = [pc EXCEPT ![t] = "idle"]
  /\ idx' = [idx EXCEPT ![t] = 0]
  /\ cur' = [cur EXCEPT ![t] = 0]
  /\ prev_count' = [prev_count EXCEPT ![t] = U64Zero]
  /\ SeqReturn("dec0")
  /\ UNCHANGED <<unheld, client, size, debug_assertions, ref_counts, todo, handles,
                 devices, slotOf, nextGen, race, prevGen, claimsSince>>
  /\ UNCHANGED <<caps, mo>>
  /\ SawFull

\* ------------------------------------------- Instance, PhysicalDevice
\* Instance::from_raw: acquire_and_init(|| RawInstance(raw_instance))
\* .expect(..)
FromRaw(t) ==
  /\ client = "vk"
  /\ AcquireStart(t)

\* impl Deref for Instance: RAW_INSTANCES.get_ref(self.id)
Deref(t, g) ==
  /\ client = "vk"
  /\ GetRefBody(t, g)

\* impl Clone for Instance: RAW_INSTANCES.inc_count(self.id); Self { id }
Clone(t, g) ==
  /\ client = "vk"
  /\ handles[g] >= 1
  /\ IncCountBody(t, g)

\* impl Drop for Instance: RAW_INSTANCES.dec_count(self.id)
DropInstance(t, g) ==
  /\ client = "vk"
  /\ DecCountHeld(t, g)

\* physical_device::enumerate(&instance): the loader reports k devices
\* through the dereferenced instance; each is then wrapped with a clone
Enumerate(t, g, k) ==
  /\ client = "vk"
  /\ pc[t] = "idle"
  /\ g < nextGen /\ handles[g] >= 1
  /\ Holders(g) + Reserved(g) + k <= MaxHandles
  /\ ub' = (ub \/ assume_init_ref(items[slotOf[g]]).st # "init")
  /\ IF k = 0
     THEN /\ ret' = [op |-> "enumerate", exp |-> g]
          /\ SeqCall(t, "other", TRUE)
          /\ UNCHANGED <<pc, cur, todo>>
     ELSE /\ pc' = [pc EXCEPT ![t] = "enum"]
          /\ cur' = [cur EXCEPT ![t] = g]
          /\ todo' = [todo EXCEPT ![t] = k]
          /\ ret' = NoRet
          /\ SeqCall(t, "other", FALSE)
  /\ RaceOther(t)
  /\ UNCHANGED <<unheld, client, size, debug_assertions, ref_counts, items, idx,
                 prev_count, handles, devices, slotOf, nextGen, drops,
                 prevGen, claimsSince>>
  /\ UNCHANGED <<caps, mo>>
  /\ SawFull

\* .map(|dev| PhysicalDevice { device: dev, instance: instance.clone() })
EnumerateClone(t) ==
  /\ pc[t] = "enum"
  /\ LET g == cur[t]
     IN /\ ref_counts' =
             [ref_counts EXCEPT ![slotOf[g]] = fetch_add(@).val]
        /\ devices' = [devices EXCEPT ![g] = @ + 1]
        /\ IF todo[t] = 1
           THEN /\ pc' = [pc EXCEPT ![t] = "idle"]
                /\ cur' = [cur EXCEPT ![t] = 0]
                /\ ret' = [op |-> "enumerate", exp |-> g]
                /\ SeqReturn("other")
           ELSE /\ ret' = NoRet
                /\ UNCHANGED <<pc, cur, seq>>
  /\ todo' = [todo EXCEPT ![t] = @ - 1]
  /\ UNCHANGED <<unheld, client, size, debug_assertions, items, idx, prev_count,
                 handles, slotOf, nextGen, drops, ub, race, prevGen,
                 claimsSince>>
  /\ UNCHANGED <<caps, mo>>
  /\ SawFull

\* a PhysicalDevice is dropped: its instance field is dropped
DropPhysicalDevice(t, g) ==
  /\ client = "vk"
  /\ g < nextGen
  /\ devices[g] >= 1
  /\ devices' = [devices EXCEPT ![g] = @ - 1]
  /\ DecCountBody(t, slotOf[g], g)
  /\ UNCHANGED <<handles, unheld>>

\* ------------------------------------------------------ specification
Next ==
  \/ \E t \in Threads : AcquireAndInit(t)
  \/ \E t \in Threads : AcquireCas(t)
  \/ \E t \in Threads : AcquireWrite(t)
  \/ \E t \in Threads, g \in Gen : GetRef(t, g)
  \/ \E t \in Threads, g \in Gen : IncCount(t, g)
  \/ \E t \in Threads, g \in Gen : DecCount(t, g)
  \/ \E t \in Threads : DecCountDrop(t)
  \/ \E t \in Threads : FromRaw(t)
  \/ \E t \in Threads, g \in Gen : Deref(t, g)
  \/ \E t \in Threads, g \in Gen : Clone(t, g)
  \/ \E t \in Threads, g \in Gen : DropInstance(t, g)
  \/ \E t \in Threads, g \in Gen, k \in 0..MaxDevices : Enumerate(t, g, k)
  \/ \E t \in Threads : EnumerateClone(t)
  \/ \E t \in Threads, g \in Gen : DropPhysicalDevice(t, g)

Spec == Init /\ [][Next]_vars

\* the next step of the call thread t is in the middle of
Continue(t) ==
  \/ AcquireCas(t)
  \/ AcquireWrite(t)
  \/ DecCountDrop(t)
  \/ EnumerateClone(t)

\* every thread that is inside a call keeps being scheduled
SpecFair == Spec /\ \A t \in Threads : WF_vars(Continue(t))

\* direct calls on an UnsafeArcArray<N, T>, some of them against the
\* safety contract of dec_count
InitMisuse == InitWith("misuse", N)

\* the threads that make calls in this scenario: all but one
MisuseThreads == 1..(NumThreads - 1)

NextMisuse ==
  \/ \E t \in MisuseThreads : AcquireAndInit(t)
  \/ \E t \in MisuseThreads : AcquireCas(t)
  \/ \E t \in MisuseThreads : AcquireWrite(t)
  \/ \E t \in MisuseThreads, g \in Gen : GetRef(t, g)
  \/ \E t \in MisuseThreads, g \in Gen : IncCount(t, g)
  \/ \E t \in MisuseThreads, g \in Gen : DecCount(t, g)
  \/ \E t \in MisuseThreads, i \in Slots : DecCountUnheld(t, i)
  \/ \E t \in MisuseThreads : DecCountDrop(t)

SpecMisuse == InitMisuse /\ [][NextMisuse]_vars

\* ------------------------------------------------------------- panics
\* direct calls on an UnsafeArcArray<N, T> whose initializers may panic
\* and whose callers may pass an index that is not below N; a panic ends
\* the thread that made the call.  All threads but one make calls
InitPanics == InitWith("panics", N)

\* the indices >= N that callers pass
Beyond == size..(size + MaxBeyond - 1)

\* mutant: index <= N
InBounds_le(index) == index <= size

\* assert!(index < N) of dec_count, and the bounds check of
\* self.ref_counts[index] and self.items[index]
InBounds(index) == index < size

\* mutant: the unwinding gives the claimed slot back
AcquireInitPanics_release(t) ==
  /\ client = "panics"
  /\ pc[t] = "write"
  /\ ref_counts' = [ref_counts EXCEPT ![idx[t]] = U64Zero]
  /\ pc' = [pc EXCEPT ![t] = "panicked"]
  /\ ret' = NoRet
  /\ SeqReturn("other")
  /\ RaceOther(t)
  /\ UNCHANGED <<unheld, client, size, debug_assertions, items, idx,
                 prev_count, cur, todo, handles, devices, slotOf, nextGen,
                 drops, ub, prevGen, claimsSince>>
  /\ UNCHANGED <<caps, mo>>
  /\ SawFull

\* after a successful compare_exchange: init() panics; the unwinding
\* leaves acquire_and_init before write and nothing undoes the claim
AcquireInitPanics(t) ==
  /\ client = "panics"
  /\ pc[t] = "write"
  /\ pc' = [pc EXCEPT ![t] = "panicked"]
  /\ ret' = NoRet
  /\ SeqReturn("other")
  /\ RaceOther(t)
  /\ UNCHANGED <<unheld, client, size, debug_assertions, ref_counts, items,
                 idx, prev_count, cur, todo, handles, devices, slotOf,
                 nextGen, drops, ub, prevGen, claimsSince>>
  /\ UNCHANGED <<caps, mo>>
  /\ SawFull

\* the bounds check on index fails: the call panics
IndexPanics(t, index) ==
  /\ pc' = [pc EXCEPT ![t] = "panicked"]
  /\ idx' = [idx EXCEPT ![t] = index]
  /\ ret' = NoRet
  /\ UNCHANGED <<ref_counts, items, ub>>

\* what the call op does to the count c it reaches
Touched(op, c) ==
  IF op = "inc_count" THEN fetch_add(c).val
  ELSE IF op = "dec_count" THEN fetch_sub(c).val
  ELSE c

\* an access by op to element index of an array of N elements with
\* index >= N that no check stopped: undefined behaviour, which may read
\* or change a count of the table, or none
PastTheEnd(t, index, op) ==
  /\ ub' = TRUE
  /\ \E hit \in Slots \cup {index} :
       ref_counts' = IF hit \in Slots
                     THEN [ref_counts EXCEPT ![hit] = Touched(op, @)]
                     ELSE ref_counts
  /\ idx' = [idx EXCEPT ![t] = index]
  /\ ret' = [op |-> op]
  /\ UNCHANGED <<pc, items>>

\* a call of op with an index >= N
BeyondCall(t, index, op) ==
  /\ client = "panics"
  /\ pc[t] = "idle"
  /\ index \in Beyond
  /\ IF InBounds(index)
     THEN PastTheEnd(t, index, op)
     ELSE IndexPanics(t, index)
  /\ SeqCall(t, "other", TRUE)
  /\ RaceOther(t)
  /\ UNCHANGED <<unheld, client, size, debug_assertions, prev_count, cur,
                 todo, handles, devices, slotOf, nextGen, drops, prevGen,
                 claimsSince>>
  /\ UNCHANGED <<caps, mo>>
  /\ SawFull

\* get_ref(index) with index >= N
GetRefBeyond(t, index) == BeyondCall(t, index, "get_ref")

\* inc_count(index) with index >= N
IncCountBeyond(t, index) == BeyondCall(t, index, "inc_count")

\* dec_count(index) with index >= N
DecCountBeyond(t, index) == BeyondCall(t, index, "dec_count")

NextPanics ==
  \/ \E t \in MisuseThreads : AcquireStart(t)
  \/ \E t \in MisuseThreads : AcquireCas(t)
  \/ \E t \in MisuseThreads : AcquireWrite(t)
  \/ \E t \in MisuseThreads : AcquireInitPanics(t)
  \/ \E t \in MisuseThreads, g \in Gen : GetRefBody(t, g)
  \/ \E t \in MisuseThreads, g \in Gen : IncCountBody(t, g)
  \/ \E t \in MisuseThreads, g \in Gen : DecCountHeld(t, g)
  \/ \E t \in MisuseThreads : DecCountDrop(t)
  \/ \E t \in MisuseThreads, index \in Beyond : GetRefBeyond(t, index)
  \/ \E t \in MisuseThreads, index \in Beyond : IncCountBeyond(t, index)
  \/ \E t \in MisuseThreads, index \in Beyond : DecCountBeyond(t, index)

SpecPanics == InitPanics /\ [][NextPanics]_vars

\* ------------------------------------- extensions and validation layers
\* enum Extension / enum ValidationLayer, in declaration (iteration) order
Extension == <<"KhrSurface", "UnknownExtension", "UnreachableExtension">>
ValidationLayer == <<"KhronosValidation", "UnknownLayer", "UnreachableLayer">>

EXTENSION_NAMES ==
  <<"VK_KHR_surface", "__UNKNOWN_EXTENSION", "__UNREACHABLE_EXTENSION">>
VALIDATION_LAYER_NAMES ==
  <<"VK_LAYER_KHRONOS_validation", "__UNKNOW_LAYER", "__UNREACHABLE_LAYER">>

Kinds == {"extension", "layer"}
iter(k) == IF k = "extension" THEN Extension ELSE ValidationLayer
Names(k) == IF k = "extension" THEN EXTENSION_NAMES ELSE VALIDATION_LAYER_NAMES
Variants(k) == {iter(k)[i] : i \in 1..Len(iter(k))}
Unknown(k) == IF k = "extension" THEN "UnknownExtension" ELSE "UnknownLayer"

\* *self as usize
Discriminant(k, e) == (CHOOSE i \in 1..Len(iter(k)) : iter(k)[i] = e) - 1

\* mutant: every variant has the name of the first one
name_first(k, e) == Names(k)[1]

\* Extension::name / ValidationLayer::name: NAMES[*self as usize]
name(k, e) == Names(k)[Discriminant(k, e) + 1]

\* mutant: the last element that satisfies the predicate
find_last(hits) ==
  IF hits = {} THEN 0 ELSE CHOOSE i \in hits : \A j \in hits : j <= i

\* Iterator::find, given the positions whose elements satisfy the
\* predicate: the first of them, 0 if there is none
find(hits) ==
  IF hits = {} THEN 0 ELSE CHOOSE i \in hits : \A j \in hits : i <= j

\* identify_name: Self::iter().find(|v| v.name() == name)
\* .unwrap_or(Unknown)
identify_name(k, nm) ==
  LET i == find({j \in 1..Len(iter(k)) : name(k, iter(k)[j]) = nm})
  IN IF i = 0 THEN Unknown(k) ELSE iter(k)[i]

\* the names the loader may report: those of the variants and a foreign one
LoaderNames(k) == {Names(k)[i] : i \in 1..Len(Names(k))} \cup {"garbage"}

\* vk::ExtensionProperties / vk::LayerProperties as the loader reports them
Properties(k) ==
  [extension_name : LoaderNames(k), spec_version : 1..MaxVersion]

SeqsUpTo(S, n) == UNION {[1..m -> S] : m \in 0..n}

\* enumerate(): every reported entry becomes an Available entry whose
\* variant is identify_name of its name (the closure of flat_map returns
\* Some for every entry)
enumerate(k, props) ==
  [i \in 1..Len(props) |->
     [variant |-> identify_name(k, props[i].extension_name),
      name |-> props[i].extension_name,
      spec_version |-> props[i].spec_version]]

SomeOf(list) == [tag |-> "Some", list |-> list]

\* the loop of from_available_and_required over required[i..]: find the
\* first available entry of the variant, return None (the ? operator) if
\* there is none, push it otherwise
RECURSIVE Select(_, _, _, _)
Select(available, required, i, selected) ==
  IF i > Len(required) THEN SomeOf(selected)
  ELSE LET j == find({a \in 1..Len(available) :
                        available[a].variant = required[i]})
       IN IF j = 0 THEN None
          ELSE Select(available, required, i + 1,
                      Append(selected, available[j]))

\* Available{Extensions,ValidationLayers}::from_available_and_required
from_available_and_required(available, required) ==
  Select(available, required, 1, <<>>)

TableVars == <<client, size, debug_assertions, ref_counts, items, pc, idx,
               prev_count, cur, todo, handles, devices, slotOf, nextGen,
               drops, ub, unheld, ret, seq, race, prevGen, full,
               claimsSince>>

\* a run of the program that builds a list of extensions or of layers
InitCaps ==
  /\ InitTable("caps", MAX_INSTANCES)
  /\ mo = NoOrder
  /\ \E k \in Kinds, ok \in BOOLEAN :
     \E props \in IF ok THEN SeqsUpTo(Properties(k), MaxProps) ELSE {<<>>} :
       caps = [kind |-> k, at |-> "start", loader_ok |-> ok,
               loader |-> props,
               available |-> <<>>, required |-> <<>>, selected |-> None,
               identified |-> [of |-> "none", name |-> "", variant |-> "none"]]

\* e.name() for a variant e
Name(e) ==
  /\ caps.at = "start"
  /\ caps' = [caps EXCEPT !.at = "named",
                          !.identified = [of |-> e,
                                          name |-> name(caps.kind, e),
                                          variant |-> "none"]]
  /\ UNCHANGED <<TableVars, mo>>

\* Extension::identify_name(nm) / ValidationLayer::identify_name(nm), on a
\* name of the caller's or on the name that name() has just returned
IdentifyName(nm) ==
  /\ caps.at \in {"start", "named"}
  /\ caps.at = "named" => nm = caps.identified.name
  /\ caps' = [caps EXCEPT !.at = "identified",
                          !.identified.name = nm,
                          !.identified.variant = identify_name(caps.kind, nm)]
  /\ UNCHANGED <<TableVars, mo>>

\* extension::enumerate() / validation_layer::enumerate():
\* expect_vk_success panics when the loader reports an error
Enumerated ==
  /\ caps.at = "start"
  /\ caps' = IF caps.loader_ok
             THEN [caps EXCEPT !.at = "enumerated",
                               !.available = enumerate(caps.kind, caps.loader)]
             ELSE [caps EXCEPT !.at = "panicked"]
  /\ UNCHANGED <<TableVars, mo>>

\* from_available_and_required(&available, &required) on the enumerated list
FromAvailableAndRequired(required) ==
  /\ caps.at = "enumerated"
  /\ caps' = [caps EXCEPT !.at = "selected",
                          !.required = required,
                          !.selected = from_available_and_required(
                                         caps.available, required)]
  /\ UNCHANGED <<TableVars, mo>>

NextCaps ==
  \/ \E e \in Variants(caps.kind) : Name(e)
  \/ \E nm \in LoaderNames(caps.kind) : IdentifyName(nm)
  \/ Enumerated
  \/ \E required \in SeqsUpTo(Variants(caps.kind), MaxRequired) :
       FromAvailableAndRequired(required)

SpecCaps == InitCaps /\ [][NextCaps]_vars

\* ---------------------------------------------------- memory ordering
\* One slot of the table under the release/acquire rules of the memory
\* model.  An access to the stored value is <<claim, 0>> (the write of the
\* initializer's result) or <<claim, t>> (an access of holder t through
\* its reference).  view[t] is the set of accesses that happen-before the next
\* step of t; rel is what the count's current value publishes to a reader
\* that acquires it; acq[t] is what t's relaxed reads of the count have
\* seen and an acquire fence of t makes part of view[t].

\* the orderings the code passes to the atomic operations
CLAIM_ORDERING == "AcqRel"    \* compare_exchange(0, 1, AcqRel, Relaxed)
INC_ORDERING == "Relaxed"     \* fetch_add(1, Relaxed)
DEC_ORDERING == "Relaxed"     \* fetch_sub(1, Relaxed)

Acquires(ord) == ord \in {"Acquire", "AcqRel", "SeqCst"}
Releases(ord) == ord \in {"Release", "AcqRel", "SeqCst"}

\* a read-modify-write of the count by thread t with ordering ord that
\* stores the value c: an acquiring one makes what the value read publishes
\* part of t's view, a relaxed one only remembers it for a later fence; a
\* releasing one publishes t's view, and every one continues the release
\* sequence of the value it read
Rmw(m, t, ord, c) ==
  LET seen == IF Acquires(ord) THEN m.view[t] \cup m.rel ELSE m.view[t]
  IN [m EXCEPT !.rc = c,
               !.view[t] = seen,
               !.acq[t] = IF Acquires(ord) THEN @ ELSE @ \cup m.rel,
               !.rel = IF Releases(ord) THEN @ \cup seen ELSE @]

\* fence(Ordering::Acquire) by thread t
FenceAcquire(m, t) == [m EXCEPT !.view[t] = @ \cup m.acq[t]]

InitOrder ==
  /\ InitTable("order", MAX_INSTANCES)
  /\ caps = NoCaps
  /\ mo = [rc |-> 0, rel |-> {}, claim |-> 0, cell |-> "uninit",
           view |-> [t \in Threads |-> {}],
           acq |-> [t \in Threads |-> {}],
           own |-> [t \in Threads |-> 0],
           at |-> [t \in Threads |-> "idle"],
           done |-> {}, unseen |-> {}, missed |-> {}]

\* acquire_and_init on the one slot: the compare_exchange (a failed one
\* changes nothing and the call returns None)
OrderAcquireCas(t) ==
  /\ mo.at[t] = "idle"
  /\ mo.claim < MaxClaims
  /\ mo.rc = 0
  /\ mo' = [Rmw(mo, t, CLAIM_ORDERING, 1) EXCEPT !.at[t] = "write",
                                                  !.claim = @ + 1]
  /\ UNCHANGED <<TableVars, caps>>

\* acquire_and_init: write(init()), return Some(0); the caller holds the
\* first reference
OrderAcquireWrite(t) ==
  /\ mo.at[t] = "write"
  /\ mo' = [mo EXCEPT !.at[t] = "idle",
                      !.cell = "init",
                      !.done = {<<mo.claim, 0>>},
                      !.view[t] = @ \cup {<<mo.claim, 0>>},
                      !.own[t] = 1]
  /\ UNCHANGED <<TableVars, caps>>

\* get_ref by a holder, which then accesses the value through the
\* reference: the accesses made to the value so far that do not
\* happen-before this one are recorded
OrderGetRef(t) ==
  /\ mo.at[t] = "idle"
  /\ mo.own[t] >= 1
  /\ <<mo.claim, t>> \notin mo.done
  /\ mo' = [mo EXCEPT !.unseen = @ \cup ({<<mo.claim, 0>>} \ mo.view[t]),
                      !.done = @ \cup {<<mo.claim, t>>},
                      !.view[t] = @ \cup {<<mo.claim, t>>}]
  /\ UNCHANGED <<TableVars, caps>>

\* inc_count by a holder
OrderIncCount(t) ==
  /\ mo.at[t] = "idle"
  /\ mo.own[t] >= 1
  /\ mo.rc < MaxHandles
  /\ mo' = [Rmw(mo, t, INC_ORDERING, mo.rc + 1) EXCEPT !.own[t] = @ + 1]
  /\ UNCHANGED <<TableVars, caps>>

\* a handle moves from thread t to thread u (through a channel, a spawn or
\* a join): what happens-before the send happens-before the receipt
SendHandle(t, u) ==
  /\ t # u
  /\ mo.at[t] = "idle" /\ mo.at[u] = "idle"
  /\ mo.own[t] >= 1
  /\ mo' = [mo EXCEPT !.own[t] = @ - 1,
                      !.own[u] = @ + 1,
                      !.view[u] = @ \cup mo.view[t]]
  /\ UNCHANGED <<TableVars, caps>>

\* dec_count by a holder: the fetch_sub; with prev_count == 1 the fence and
\* the drop follow
OrderDecCount(t) ==
  /\ mo.at[t] = "idle"
  /\ mo.own[t] >= 1
  /\ mo' = [Rmw(mo, t, DEC_ORDERING, mo.rc - 1) EXCEPT
              !.own[t] = @ - 1,
              !.at[t] = IF mo.rc = 1 THEN "fence" ELSE "idle"]
  /\ UNCHANGED <<TableVars, caps>>

\* dec_count: fence(Ordering::Acquire)
OrderDecFence(t) ==
  /\ mo.at[t] = "fence"
  /\ mo' = [FenceAcquire(mo, t) EXCEPT !.at[t] = "drop"]
  /\ UNCHANGED <<TableVars, caps>>

\* dec_count: assume_init_drop(); the accesses made to the value that do
\* not happen-before the drop are recorded
OrderDecDrop(t) ==
  /\ mo.at[t] = "drop"
  /\ mo' = [mo EXCEPT !.at[t] = "idle",
                      !.cell = "dropped",
                      !.missed = @ \cup (mo.done \ mo.view[t])]
  /\ UNCHANGED <<TableVars, caps>>

NextOrder ==
  \/ \E t \in Threads : OrderAcquireCas(t)
  \/ \E t \in Threads : OrderAcquireWrite(t)
  \/ \E t \in Threads : OrderGetRef(t)
  \/ \E t \in Threads : OrderIncCount(t)
  \/ \E t, u \in Threads : SendHandle(t, u)
  \/ \E t \in Threads : OrderDecCount(t)
  \/ \E t \in Threads : OrderDecFence(t)
  \/ \E t \in Threads : OrderDecDrop(t)

SpecOrder == InitOrder /\ [][NextOrder]_vars

\* ===================================================== checked properties
Live(g) == [st |-> "init", v |-> g]
Written(g) == g < nextGen /\ ~\E t \in Threads : pc[t] = "write" /\ cur[t] = g
Releasing(g) == \E t \in Threads : pc[t] = "drop" /\ cur[t] = g
RegistryOpInFlight == \E t \in Threads : pc[t] \in {"acq", "write", "drop"}
OnSlot(i) == {g \in Gen : g < nextGen /\ slotOf[g] = i}
Moved(t) == pc'[t] # pc[t] \/ idx'[t] # idx[t]
FailedCas(t) == pc[t] = "acq" /\ Moved(t) /\ pc'[t] # "write"

\* C1 -- No premature destruction: whenever a holder of a reference calls
\* get_ref on a slot whose count is > 0, the storage holds the initialized,
\* not destroyed value of the acquisition the reference descends from.
C1_NoPrematureDestruction ==
  (ret.op = "get_ref" /\ ret.rc # U64Zero) => ret.cell = Live(ret.exp)

\* C2 -- Single destruction: once every reference on the value of an
\* acquisition has been given up and the dec_count calls have returned,
\* that value has been destroyed exactly once, by the dec_count call on
\* its own references that saw the count 1.
C2_SingleDestruction ==
  \A g \in Gen :
    (Written(g) /\ Holders(g) = 0 /\ ~Releasing(g)) => drops[g] = <<g>>

\* C3 -- Capacity: calls made one after the other on a fresh table of size
\* N succeed until N slots are taken and return None from then on while no
\* dec_count is called; the acquire_and_init that follows a completed
\* zero-reaching dec_count returns Some.
C3_Capacity ==
  (client = "array" /\ seq.on) =>
    /\ ~seq.anyDec =>
         /\ nextGen - 1 <= size
         /\ (ret.op = "acquire_and_init" /\ ret.val.tag = "None")
              => nextGen - 1 = size
    /\ (seq.afterFree /\ ret.op = "acquire_and_init") => ret.val.tag = "Some"

\* C3 witness: a table that was full, lost one value to a dec_count and has
\* just been filled again by the next acquire_and_init.
C3_Witness ==
  /\ client = "array" /\ seq.on /\ seq.afterFree
  /\ ret.op = "acquire_and_init" /\ ret.val.tag = "Some"
  /\ FreeSlots = {}
  /\ nextGen = size + 2

\* C4 -- Exclusive claim: a slot is claimed at most once between two of its
\* zero-reaching decrements, no two calls are initializing the same slot,
\* values that have holders at the same time sit at distinct indices, and a
\* live value in storage was written by the one claim it belongs to.
C4_ExclusiveClaim ==
  /\ \A i \in Slots : claimsSince[i] <= 1
  /\ \A t, u \in Threads :
       (t # u /\ pc[t] = "write" /\ pc[u] = "write") => idx[t] # idx[u]
  /\ \A g, h \in Gen :
       (g # h /\ Holders(g) >= 1 /\ Holders(h) >= 1) => slotOf[g] # slotOf[h]
  /\ \A i \in Slots :
       items[i].st = "init" => (items[i].v \in OnSlot(i) /\ Written(items[i].v))

\* C4 witness: two values held at once at distinct indices after a slot has
\* been claimed a second time.
C4_Witness ==
  /\ client = "array"
  /\ nextGen = 4
  /\ \E g, h \in Gen : g # h /\ Holders(g) >= 1 /\ Holders(h) >= 1

\* C5 -- Race for the last slot: of the acquire_and_init calls that overlap
\* on a table with one free slot, with no dec_count during the race, exactly
\* one returns Some (the free index), all others return None, and only the
\* winner's initializer is invoked.
C5_LastSlotRace ==
  (race.on /\ Cardinality(race.racers) >= 2) =>
    /\ race.some <= 1
    /\ race.inits = race.some
    /\ race.some + race.none = Cardinality(race.racers) => race.some = 1
    /\ (ret.op = "acquire_and_init" /\ ret.by \in race.racers) =>
         /\ ret.val.tag = "Some" => (ret.val.idx = race.free /\ ret.init)
         /\ ret.val.tag = "None" => ~ret.init

\* C5 witness: a finished race of at least two calls, one winner.
C5_Witness ==
  /\ race.on /\ Cardinality(race.racers) >= 2
  /\ race.some = 1
  /\ race.none = Cardinality(race.racers) - 1

C7_HandleAccounting ==
  client = "vk" =>
    /\ ~RegistryOpInFlight =>
         \A i \in Slots :
           /\ IsSmall(ref_counts[i])
           /\ AsNat(ref_counts[i]) = SumOver(OnSlot(i), [g \in Gen |-> Holders(g)])
    /\ \A g \in Gen : Holders(g) >= 1 => ref_counts[slotOf[g]] # U64Zero

\* C7 witness: an Instance and a PhysicalDevice of it, no call in flight.
C7_Witness ==
  /\ client = "vk" /\ Quiet
  /\ \E g \in Gen : handles[g] = 1 /\ devices[g] = 1

\* C8 -- Keep-alive through clones: the RawInstance is not destroyed while
\* an Instance handle or a PhysicalDevice of it exists, and once the last of
\* them has been dropped its destructor has run exactly once.
C8_KeepAlive ==
  client = "vk" =>
    \A g \in Gen :
      /\ Holders(g) >= 1 => (items[slotOf[g]] = Live(g) /\ drops[g] = <<>>)
      /\ (Written(g) /\ Holders(g) = 0 /\ ~Releasing(g)) => Len(drops[g]) = 1

\* C9 -- Exhaustion changes nothing: a compare_exchange that fails, and so
\* every step of a call that returns None, leaves counts and storage as
\* they were, and a None is returned without the initializer having run;
\* Instance::from_raw panics, leaving the table alone, while a handle of
\* another instance is live, and claims the slot when every handle has been
\* dropped and no other call is in flight.
C9_ExhaustionChangesNothing ==
  [][\A t \in Threads :
       /\ FailedCas(t) =>
            /\ ref_counts' = ref_counts /\ items' = items
            /\ handles' = handles /\ devices' = devices /\ drops' = drops
            /\ ret'.op = "acquire_and_init" =>
                 (ret'.val = None /\ ~ret'.init)
       /\ (client = "vk" /\ pc[t] = "acq" /\ Moved(t)) =>
            IF \E g \in Gen : Holders(g) >= 1
            THEN /\ pc'[t] = "panicked"
                 /\ ref_counts' = ref_counts /\ items' = items
            ELSE (\A u \in Threads \ {t} : ~Busy(u)) => pc'[t] = "write"
    ]_vars

\* C9 witness: from_raw has panicked on the full table and the live
\* instance is intact.
C9_Witness ==
  /\ client = "vk"
  /\ \E t \in Threads : pc[t] = "panicked"
  /\ \E g \in Gen : /\ Holders(g) >= 1
                    /\ items[slotOf[g]] = Live(g)
                    /\ ref_counts[slotOf[g]] = U64One

\* C10 (as claimed) -- Under-run detection: a dec_count call on a slot
\* whose count is 0 ends in the assertion failure, so it never returns.
C10_UnderrunAlwaysFatal ==
  ~(ret.op = "dec_count" /\ ret.prev = U64Zero)

\* C10 (amended) -- a dec_count call on a slot whose count is 0 ends in the
\* assertion failure when the build has debug assertions; in every build it
\* destroys nothing.
C10_UnderrunFatalInDebug ==
  /\ (ret.op = "dec_count" /\ ret.prev = U64Zero) =>
       (debug_assertions = "off" /\ ~ret.dropped)
  /\ \A t \in Threads :
       /\ pc[t] = "drop" => prev_count[t] # U64Zero
       /\ (pc[t] = "panicked" /\ client = "misuse") =>
            (prev_count[t] = U64Zero /\ debug_assertions = "on")
  /\ unheld = 0 => debug_assertions = "unread"

\* C10 witness: the assertion of a dec_count on a free slot has failed.
C10_Witness ==
  \E t \in Threads :
    /\ pc[t] = "panicked" /\ prev_count[t] = U64Zero
    /\ ref_counts[idx[t]] = U64Max
    /\ items[idx[t]].st # "dropped"

\* C11 -- None means at capacity: whenever an acquire_and_init call returns
\* None, there was an instant during the call at which every slot had a
\* count > 0.
C11_NoneMeansAtCapacity ==
  (ret.op = "acquire_and_init" /\ ret.val = None) => ret.full

\* C12 -- Storage/refcount invariant: in every reachable state, the states
\* inside acquire_and_init and inside dec_count included, a slot's storage
\* holds a live value if and only if the slot's count is > 0.
C12_StorageIffCount ==
  \A i \in Slots : (items[i].st = "init") <=> (ref_counts[i] # U64Zero)

\* the calls between their successful compare_exchange on slot i and write
Initializing(i) == {t \in Threads : pc[t] = "write" /\ idx[t] = i}

\* this step is the fetch_add of an inc_count on a reference of value g
Duplicated(g) ==
  \/ handles[g] >= 1 /\ handles'[g] = handles[g] + 1
  \/ devices'[g] = devices[g] + 1

KeepsCountAboveZero ==
  \/ ret'.op = "inc_count"
  \/ ret'.op = "dec_count" /\ ~ret'.dropped /\ ret'.prev \notin {U64Zero, U64One}

\* C14 -- get_ref has no side effects: a get_ref call leaves every count and
\* every storage cell as it was and returns the cell as it is; calls of
\* inc_count and of dec_count that keep the count above 0, interleaved with
\* the readers in any order, do not change what get_ref returns for any
\* value.
C14_GetRefPure ==
  /\ [](ret.op = "get_ref" =>
         /\ ret.cell = items[slotOf[ret.exp]]
         /\ ret.rc = ref_counts[slotOf[ret.exp]])
  /\ [][(ret'.op = "get_ref" =>
            /\ ref_counts' = ref_counts /\ items' = items
            /\ handles' = handles /\ devices' = devices
            /\ drops' = drops /\ pc' = pc)
         /\ (KeepsCountAboveZero =>
              \A i \in Slots :
                assume_init_ref(items'[i]) = assume_init_ref(items[i]))
      ]_vars

\* C14 witness: get_ref has returned the live value of a slot with two
\* references while another thread is in the middle of a call.
C14_Witness ==
  /\ ret.op = "get_ref"
  /\ ret.cell = Live(ret.exp)
  /\ ret.rc = <<2, 0, 0, 0>>
  /\ \E t \in Threads : Busy(t)

\* the positions of the available entries whose variant is e
Matches(e) ==
  {a \in 1..Len(caps.available) : caps.available[a].variant = e}

\* C15 -- from_available_and_required returns None if some required variant
\* matches no available entry; otherwise Some of a list as long as required
\* whose i-th entry is the first available entry of the variant required[i].
C15_FromAvailableAndRequired ==
  caps.at = "selected" =>
    IF \E i \in 1..Len(caps.required) : Matches(caps.required[i]) = {}
    THEN caps.selected = None
    ELSE /\ caps.selected.tag = "Some"
         /\ Len(caps.selected.list) = Len(caps.required)
         /\ \A i \in 1..Len(caps.required) :
              \E a \in Matches(caps.required[i]) :
                /\ \A b \in Matches(caps.required[i]) : a <= b
                /\ caps.selected.list[i] = caps.available[a]

\* C15 witness: a variant required twice was selected twice, each time as
\* the first of two available entries of that variant.
C15_Witness ==
  /\ caps.at = "selected" /\ caps.selected.tag = "Some"
  /\ Len(caps.required) = 2 /\ caps.required[1] = caps.required[2]
  /\ Cardinality(Matches(caps.required[1])) = 2
  /\ caps.available[1] # caps.available[2]
  /\ caps.selected.list = <<caps.available[1], caps.available[1]>>

\* C16 -- enumerate() ignores unknown names: no entry of the returned list
\* has the variant UnknownExtension / UnknownLayer, and so
\* from_available_and_required never selects such an entry.
C16_EnumerateIgnoresUnknown ==
  /\ \A a \in 1..Len(caps.available) :
       caps.available[a].variant # Unknown(caps.kind)
  /\ (caps.at = "selected" /\ caps.selected.tag = "Some") =>
       \A i \in 1..Len(caps.selected.list) :
         caps.selected.list[i].variant # Unknown(caps.kind)

\* C17 -- identify_name is the inverse of name: identify_name(e.name()) is
\* e for every variant e, and a name that is no variant's name is
\* identified as UnknownExtension / UnknownLayer.
C17_IdentifyInvertsName ==
  caps.at = "identified" =>
    LET k == caps.kind
        id == caps.identified
    IN /\ id.of # "none" => id.variant = id.of
       /\ \A i \in 1..Len(Names(k)) : Names(k)[i] = id.name => id.variant = iter(k)[i]
       /\ (\A i \in 1..Len(Names(k)) : Names(k)[i] # id.name) =>
            id.variant = Unknown(k)

\* C17 witness: the name of the last variant was identified as that variant.
C17_Witness ==
  /\ caps.at = "identified"
  /\ caps.identified.of = "UnreachableLayer"
  /\ caps.identified.name = "__UNREACHABLE_LAYER"
  /\ caps.identified.variant = "UnreachableLayer"

\* C18 -- Destroy before free: while the drop of a dec_count call whose
\* pre-decrement count was 1 has not completed, no compare_exchange of
\* acquire_and_init has succeeded on that slot and its storage still holds
\* the old value.
C18_DestroyBeforeFree ==
  \A t \in Threads :
    pc[t] = "drop" =>
      /\ \A u \in Threads : pc[u] = "write" => idx[u] # idx[t]
      /\ items[idx[t]] = Live(cur[t])

\* C19 -- a dec_count call whose pre-decrement count is greater than 1
\* lowers the count of its slot by exactly 1 and returns: it destroys
\* nothing and leaves every storage cell, live values included, as it was;
\* only a call whose pre-decrement count is 1 goes on to the drop.
C19_DecAboveOne ==
  [][/\ (ret'.op = "dec_count" /\ ret'.prev \notin {U64Zero, U64One}) =>
          /\ ~ret'.dropped
          /\ \E i \in Slots :
               /\ ref_counts[i] = ret'.prev
               /\ IsSmall(ref_counts'[i])
               /\ AsNat(ref_counts'[i]) = AsNat(ref_counts[i]) - 1
               /\ \A j \in Slots \ {i} : ref_counts'[j] = ref_counts[j]
          /\ items' = items /\ drops' = drops /\ pc' = pc
     /\ \A t \in Threads :
          (pc[t] # "drop" /\ pc'[t] = "drop") =>
            /\ ref_counts[idx'[t]] = U64One
            /\ ref_counts'[idx'[t]] = U64Zero
    ]_vars

\* C19 witness: a dec_count that saw the count 2 has returned and the value
\* is still live for the remaining holder.
C19_Witness ==
  /\ ret.op = "dec_count" /\ ret.prev = <<2, 0, 0, 0>> /\ ~ret.dropped
  /\ \E g \in Gen :
       /\ handles[g] = 1
       /\ ref_counts[slotOf[g]] = U64One
       /\ items[slotOf[g]] = Live(g)

\* C20 -- First free slot: while no two calls have overlapped, the scan of
\* acquire_and_init has passed only occupied slots, its compare_exchange
\* succeeds on the smallest index whose count is 0 and sets exactly that
\* count to 1; the call returns that index (0 on a fresh table), and it
\* returns None only if no slot has the count 0.
C20_FirstFreeSlot ==
  /\ [](seq.on =>
         /\ \A t \in Threads :
              pc[t] = "acq" => \A j \in 0..(idx[t] - 1) : ref_counts[j] # U64Zero
         /\ ret.op = "acquire_and_init" =>
              IF ret.val = None THEN FreeSlots = {}
              ELSE /\ ref_counts[ret.val.idx] = U64One
                   /\ \A j \in 0..(ret.val.idx - 1) : ref_counts[j] # U64Zero
                   /\ nextGen = 2 => ret.val = Some(0))
  /\ [][\A t \in Threads :
         (seq.on /\ pc[t] = "acq" /\ pc'[t] = "write") =>
           /\ idx[t] \in FreeSlots
           /\ \A j \in FreeSlots : idx[t] <= j
           /\ ref_counts' = [ref_counts EXCEPT ![idx[t]] = U64One]
           /\ idx'[t] = idx[t]
      ]_vars

\* C20 witness: with slot 1 occupied and slot 0 freed by a dec_count, the
\* next call, alone on the table, has returned Some(0).
C20_Witness ==
  /\ seq.on
  /\ ret.op = "acquire_and_init" /\ ret.val = Some(0)
  /\ nextGen = 4
  /\ ref_counts[1] = U64One

\* the slots whose count or storage this step changes
Changed ==
  {j \in Slots : ref_counts'[j] # ref_counts[j] \/ items'[j] # items[j]}

\* this step is the fetch_sub of a dec_count on a reference of value g
Released(g) ==
  \/ handles'[g] = handles[g] - 1
  \/ devices'[g] = devices[g] - 1

\* C21 -- Slot independence: every step of inc_count(i) and of dec_count(i)
\* leaves the count and the storage of every slot j # i unchanged; the steps
\* of an acquire_and_init that returns i change the count and the storage of
\* slot i only, and its failed compare_exchange attempts change nothing.
C21_SlotIndependence ==
  [][/\ \A g \in Gen :
          (g < nextGen /\ (Duplicated(g) \/ Released(g))) =>
            Changed \subseteq {slotOf[g]}
     /\ \A t \in Threads :
          /\ (pc[t] = "drop" /\ pc'[t] # "drop") => Changed \subseteq {idx[t]}
          /\ FailedCas(t) => Changed = {}
          /\ (pc[t] = "acq" /\ pc'[t] = "write") =>
               (Changed = {idx[t]} /\ idx'[t] = idx[t])
          /\ (pc[t] = "write" /\ pc'[t] # "write") =>
               /\ Changed \subseteq {idx[t]}
               /\ ret'.val = Some(idx[t])
    ]_vars

\* C21 witness: a value was written into slot 1 while slot 0 holds another
\* live value with two references.
C21_Witness ==
  /\ ret.op = "acquire_and_init" /\ ret.val = Some(1)
  /\ items[0].st = "init" /\ items[1].st = "init"
  /\ ref_counts[0] = <<2, 0, 0, 0>>

\* a step of a call in flight: the scan moves on by one slot or ends, at
\* the latest after slot N - 1; the write and the drop end their call
BoundedStep(t) ==
  /\ (pc[t] = "acq" /\ Moved(t)) =>
       \/ pc'[t] = "write" /\ idx'[t] = idx[t]
       \/ pc'[t] = "acq" /\ idx'[t] = idx[t] + 1
       \/ pc'[t] \in {"idle", "panicked"} /\ idx[t] = size - 1
  /\ (pc[t] \in {"write", "drop"} /\ Moved(t)) => pc'[t] = "idle"

\* the step of a fetch_add or fetch_sub: inc_count has returned with it,
\* dec_count has returned, has panicked or has only its drop left
SingleRmw ==
  /\ (\E g \in Gen : g < nextGen /\ Duplicated(g)) =>
       \A u \in Threads : pc[u] = "idle" => pc'[u] = "idle"
  /\ (\E g \in Gen : g < nextGen /\ Released(g)) =>
       \A u \in Threads :
         pc[u] = "idle" => pc'[u] \in {"idle", "drop", "panicked"}

\* C22 -- Non-blocking termination: the scan of acquire_and_init tries slot
\* 0, 1, ... in turn, each at most once, and the call returns at the latest
\* after the attempt on slot N - 1; inc_count returns within its fetch_add
\* and dec_count within its fetch_sub or after the drop that follows it; the
\* next step of a call in flight never waits for another thread, and every
\* call in flight returns or panics.
C22_NonBlocking ==
  /\ [](\A t \in Threads :
          /\ pc[t] = "acq" => (idx[t] \in Slots /\ ENABLED AcquireCas(t))
          /\ pc[t] = "write" => ENABLED AcquireWrite(t)
          /\ pc[t] = "drop" => ENABLED DecCountDrop(t))
  /\ [][SingleRmw /\ \A t \in Threads : BoundedStep(t)]_vars
  /\ \A t \in Threads : Busy(t) ~> ~Busy(t)

\* C22 witness: an acquire_and_init call has returned None after its
\* attempt on the last slot while another thread is in the middle of a call.
C22_Witness ==
  /\ ret.op = "acquire_and_init" /\ ret.val = None
  /\ \E t \in Threads : Busy(t)

\* C23 -- Publication order: the write of a slot's initial value
\* happens-before every access to the value by a holder, and every write a
\* holder made to the value before it released its reference, like the
\* initial write, happens-before the drop of the zero-reaching dec_count.
C23_PublicationOrder ==
  mo.at # <<>> => (mo.unseen = {} /\ mo.missed = {})

\* the slots whose count an unheld dec_count has wrapped
Wrapped == {i \in Slots : ref_counts[i] = U64Max}

\* this step is the fetch_sub of a dec_count on slot i whose count is 0
WrapsAt(i) ==
  /\ unheld' = unheld + 1
  /\ ref_counts[i] = U64Zero
  /\ ref_counts'[i] # ref_counts[i]

\* this step is a successful compare_exchange(0, 1) on slot i
ClaimsAt(i) ==
  \E t \in Threads : pc[t] = "acq" /\ pc'[t] = "write" /\ idx'[t] = i

\* C24 -- Wrap on under-run: dec_count on a slot whose count is 0 stores
\* 2^64 - 1 as the count, in a debug build (where the call then panics) as
\* in a release build (where it returns), and destroys nothing; the slot
\* keeps that count and no acquire_and_init claims it, so that a table with
\* k such slots holds at most N - k values.
C24_WrapConsumesSlot ==
  /\ [](/\ Cardinality(Wrapped) = unheld
        /\ Cardinality({g \in Gen : g < nextGen /\ Holders(g) >= 1})
             <= size - unheld)
  /\ [][\A i \in Slots :
          /\ WrapsAt(i) =>
               /\ ref_counts'[i] = U64Max
               /\ items' = items /\ drops' = drops
               /\ \A t \in Threads : pc'[t] = "drop" => pc[t] = "drop"
               /\ \E t \in Threads :
                    /\ pc[t] = "idle"
                    /\ \/ pc'[t] = "panicked" /\ debug_assertions' = "on"
                       \/ /\ pc'[t] = "idle" /\ debug_assertions' = "off"
                          /\ ret'.op = "dec_count" /\ ret'.prev = U64Zero
          /\ i \in Wrapped => (i \in Wrapped' /\ ~ClaimsAt(i))]_vars

\* C24 witness: in a release build an acquire_and_init has returned None
\* while one slot has the wrapped count and only N - 1 values are held.
C24_Witness ==
  /\ debug_assertions = "off"
  /\ ret.op = "acquire_and_init" /\ ret.val = None
  /\ Wrapped # {}
  /\ Cardinality({g \in Gen : g < nextGen /\ Holders(g) >= 1}) = size - 1

\* the acquire_and_init call of thread t has ended in a panic of its
\* initializer, on the slot idx[t] it had claimed
InitPanicked(t) == pc[t] = "panicked" /\ idx[t] \in Slots /\ cur[t] > 0

\* the slots claimed by calls whose initializer panicked
Consumed == {i \in Slots : \E t \in Threads : InitPanicked(t) /\ idx[t] = i}

\* the values some reference is held on
Held == {g \in Gen : g < nextGen /\ Holders(g) >= 1}

\* C25 -- Panicking initializer: the slot is claimed (count 1) before the
\* initializer runs; when the initializer panics the count stays 1 for
\* ever, the result of the call is never written to the storage, no later
\* acquire_and_init claims or returns that index, and the table holds at
\* most N - k values once k initializers have panicked.
C25_InitPanicConsumesSlot ==
  /\ [](/\ \A t \in Threads :
             /\ pc[t] = "write" => ref_counts[idx[t]] = U64One
             /\ InitPanicked(t) =>
                  /\ ref_counts[idx[t]] = U64One
                  /\ items[idx[t]].v # cur[t]
                  /\ handles[cur[t]] = 0
        /\ Cardinality(Consumed) =
             Cardinality({t \in Threads : InitPanicked(t)})
        /\ Cardinality(Held) <= size - Cardinality(Consumed))
  /\ [][\A i \in Consumed :
          /\ i \in Consumed'
          /\ ~ClaimsAt(i)
          /\ items'[i] # items[i] =>
               (\E u \in Threads : pc[u] = "drop" /\ idx[u] = i)
          /\ ret' # ret => ~(ret'.op = "acquire_and_init"
                             /\ ret'.val = Some(i))]_vars

\* C25 witness: an initializer has panicked on a slot, the other slots
\* hold values, and a later acquire_and_init has returned None.
C25_Witness ==
  /\ Consumed # {}
  /\ Cardinality(Held) = size - Cardinality(Consumed)
  /\ ret.op = "acquire_and_init" /\ ret.val = None

\* C26 -- Index out of range: inc_count, dec_count and get_ref called
\* with an index >= N panic, and the counts, the storage and the
\* references held on the stored values are what they were before.
C26_IndexOutOfRange ==
  /\ [](\A t \in Threads : idx[t] \notin Slots => pc[t] = "panicked")
  /\ [][\A t \in Threads :
          (pc[t] = "idle" /\ idx'[t] \notin Slots) =>
            /\ pc'[t] = "panicked"
            /\ UNCHANGED <<ref_counts, items, ub, drops, handles, devices,
                           slotOf, nextGen>>]_vars

\* C26 witness: a call with an index >= N has panicked while the table
\* holds a value with one reference.
C26_Witness ==
  /\ client = "panics"
  /\ \E t \in Threads : pc[t] = "panicked" /\ idx[t] \notin Slots
  /\ \E g \in Held : /\ items[slotOf[g]] = Live(g)
                     /\ ref_counts[slotOf[g]] = U64One

====
